---- MODULE Spec2Model ----
(***************************************************************************)
(* QueueMaster Pro: the ticket / counter state machine of App (createTicket,*)
(* callNextTicket, startServing, completeTicket, generateData, clearData,   *)
(* removeCategory) and the synthetic history generator.                     *)
(*                                                                          *)
(* Every handler runs to completion inside one discrete browser event and   *)
(* React re-renders before the next event is dispatched, so the `state` a   *)
(* handler closes over is the `prev` its setState updater receives: one     *)
(* handler call is one atomic step.                                         *)
(***************************************************************************)
EXTENDS Integers, Sequences, FiniteSets, TLC

VARIABLES
  categories,        \* state.categories
  counters,          \* state.counters
  tickets,           \* state.tickets
  nextTicketNumber,  \* state.nextTicketNumber
  nextUuid,          \* the number of ids crypto.randomUUID() has handed out, plus 1
  lastCall           \* the handler called last, its argument and how it ended:
                     \* "return" (left before setState), "set" (setState ran),
                     \* "throw" (an exception left the handler)

state == <<categories, counters, tickets, nextTicketNumber>>

vars == <<categories, counters, tickets, nextTicketNumber, nextUuid, lastCall>>

(***************************************************************************)
(* Bounds of the model.                                                     *)
(***************************************************************************)
\* The handlers are called for the first MaxCategoryArg categories and the
\* first MaxCounterArg counters of the defaults, and for one id that names
\* nothing.
MaxCategoryArg == 2
MaxCounterArg == 2
\* SpecEngine: crypto.randomUUID() is drawn at most MaxIssued times (tickets
\* ever issued) and Date.now() returns a value of 1..MaxTime.  Date.now() is the
\* wall clock, which the system may set back between two events, so successive
\* reads are unordered.
MaxIssued == 2
MaxTime == 2
\* SpecNumbering: more tickets, under a clock that reads 1..MaxTimeNumbering.
MaxIssuedNumbering == 3
MaxTimeNumbering == 1
\* Spec (every handler): tickets ever issued, clock range, tickets one
\* generateData run appends (the code: 20..99 a day for six months) and the
\* length of the ticket list up to which generateData is run.
MaxIssuedAll == 2
MaxTimeAll == 1
MaxSynth == 1
MaxTickets == 2
\* SpecRestored: the largest sequence value found in the saved state.
MaxRestored == 1000

Time == 1..MaxTime
TimeNumbering == 1..MaxTimeNumbering
TimeAll == 1..MaxTimeAll

(***************************************************************************)
(* types.ts: optional fields.  A field that is absent (undefined) is 0,     *)
(* which no timestamp, counter id or ticket id of the model equals.         *)
(***************************************************************************)
Undefined == 0

\* ids of tickets: crypto.randomUUID() and `synth-${currentId}`
Uuid(n) == <<"uuid", n>>
SynthId(n) == <<"synth", n>>
NoTicket == <<>>

DEFAULT_CATEGORIES ==
  << [id |-> "1", prefix |-> "G"],
     [id |-> "2", prefix |-> "P"],
     [id |-> "3", prefix |-> "C"] >>

DEFAULT_COUNTERS ==
  << [id |-> 1, status |-> "idle", currentTicketId |-> NoTicket],
     [id |-> 2, status |-> "idle", currentTicketId |-> NoTicket],
     [id |-> 3, status |-> "idle", currentTicketId |-> NoTicket] >>

\* The arguments the handlers are called with.
UnknownCategory == "9"
UnknownCounter == Len(DEFAULT_COUNTERS) + 1
CategoryIds == {DEFAULT_CATEGORIES[i].id : i \in 1..MaxCategoryArg} \cup {UnknownCategory}
CounterIds == {DEFAULT_COUNTERS[i].id : i \in 1..MaxCounterArg} \cup {UnknownCounter}
Outcomes == {"completed", "no-show"}

Init ==
  /\ categories = DEFAULT_CATEGORIES
  /\ counters = DEFAULT_COUNTERS
  /\ tickets = <<>>
  /\ nextTicketNumber = [c \in {"1", "2", "3"} |-> 1]
  /\ nextUuid = 1
  /\ lastCall = [op |-> "init", arg |-> Undefined, ret |-> "set"]

(***************************************************************************)
(* Helpers: Array.prototype.find, String(n), padStart(3, '0').              *)
(***************************************************************************)
Min(S) == CHOOSE x \in S : \A y \in S : x <= y

\* categories.find(c => c.id === id): the index of the first match, 0 if none
FindCategory(id) ==
  LET hits == {i \in 1..Len(categories) : categories[i].id = id}
  IN IF hits = {} THEN 0 ELSE Min(hits)

\* counters.find(c => c.id === id)
FindCounter(id) ==
  LET hits == {i \in 1..Len(counters) : counters[i].id = id}
  IN IF hits = {} THEN 0 ELSE Min(hits)

RECURSIVE ToDigits(_)
\* String(num) for a non-negative integer: its decimal digits
ToDigits(n) == IF n < 10 THEN <<n>> ELSE Append(ToDigits(n \div 10), n % 10)

RECURSIVE PadStart(_, _)
\* s.padStart(w, '0')
PadStart(s, w) == IF Len(s) >= w THEN s ELSE PadStart(<<0>> \o s, w)

\* `${prefix}${String(num).padStart(3, '0')}`
DisplayId(prefix, num) == <<prefix, PadStart(ToDigits(num), 3)>>

(***************************************************************************)
(* createTicket                                                             *)
(***************************************************************************)
Call(op, arg, ret) == lastCall' = [op |-> op, arg |-> arg, ret |-> ret]

\* NextNumber as one counter for all categories, as the generator numbers.
NextNumberGlobal(categoryId) == nextUuid

\* state.nextTicketNumber[categoryId] || 1
NextNumber(categoryId) ==
  IF categoryId \in DOMAIN nextTicketNumber /\ nextTicketNumber[categoryId] # 0
  THEN nextTicketNumber[categoryId]
  ELSE 1

NewTicket(category, num, now) ==
  [ id |-> Uuid(nextUuid),
    displayId |-> DisplayId(category.prefix, num),
    categoryId |-> category.id,
    status |-> "waiting",
    createdAt |-> now,
    calledAt |-> Undefined,
    startedAt |-> Undefined,
    completedAt |-> Undefined,
    counterId |-> Undefined ]

\* createTicket advancing the sequence before it looks the category up.
createTicketBumpsFirst(categoryId, now) ==
  LET k == FindCategory(categoryId)
      num == NextNumber(categoryId)
      bumped == [c \in DOMAIN nextTicketNumber \cup {categoryId} |->
                   IF c = categoryId THEN num + 1 ELSE nextTicketNumber[c]]
  IN
  IF k = 0
  THEN /\ Call("createTicket", categoryId, "return")
       /\ nextTicketNumber' = bumped
       /\ UNCHANGED <<categories, counters, tickets, nextUuid>>
  ELSE /\ Call("createTicket", categoryId, "set")
       /\ tickets' = Append(tickets, NewTicket(categories[k], num, now))
       /\ nextTicketNumber' = bumped
       /\ nextUuid' = nextUuid + 1
       /\ UNCHANGED <<categories, counters>>

\* createTicket without the nextTicketNumber part of its update.
createTicketNoAdvance(categoryId, now) ==
  LET k == FindCategory(categoryId) IN
  IF k = 0
  THEN UNCHANGED <<state, nextUuid>> /\ Call("createTicket", categoryId, "return")
  ELSE /\ Call("createTicket", categoryId, "set")
       /\ tickets' = Append(tickets,
                            NewTicket(categories[k], NextNumber(categoryId), now))
       /\ nextUuid' = nextUuid + 1
       /\ UNCHANGED <<categories, counters, nextTicketNumber>>

createTicket(categoryId, now) ==
  LET k == FindCategory(categoryId) IN
  IF k = 0
  THEN UNCHANGED <<state, nextUuid>> /\ Call("createTicket", categoryId, "return")
  ELSE LET num == NextNumber(categoryId) IN
       /\ Call("createTicket", categoryId, "set")
       /\ tickets' = Append(tickets, NewTicket(categories[k], num, now))
       /\ nextTicketNumber' =
            [c \in DOMAIN nextTicketNumber \cup {categoryId} |->
               IF c = categoryId THEN num + 1 ELSE nextTicketNumber[c]]
       /\ nextUuid' = nextUuid + 1
       /\ UNCHANGED <<categories, counters>>

(***************************************************************************)
(* callNextTicket                                                           *)
(***************************************************************************)
\* state.categories.find(c => c.id === t.categoryId)?.prefix === 'P'
IsPriority(t) ==
  LET k == FindCategory(t.categoryId)
  IN k # 0 /\ categories[k].prefix = "P"

\* Compare without its two priority clauses: oldest first only.
CompareOldestOnly(a, b) == a.createdAt - b.createdAt

\* Compare with the operands of the subtraction swapped: newest first.
CompareNewestFirst(a, b) ==
  IF IsPriority(a) /\ ~IsPriority(b) THEN -1
  ELSE IF ~IsPriority(a) /\ IsPriority(b) THEN 1
  ELSE b.createdAt - a.createdAt

\* the comparator handed to sort
Compare(a, b) ==
  IF IsPriority(a) /\ ~IsPriority(b) THEN -1
  ELSE IF ~IsPriority(a) /\ IsPriority(b) THEN 1
  ELSE a.createdAt - b.createdAt

\* state.tickets.filter(t => t.status === 'waiting')
RECURSIVE FilterWaiting(_)
FilterWaiting(s) ==
  IF s = <<>> THEN <<>>
  ELSE LET rest == FilterWaiting(Tail(s))
       IN IF Head(s).status = "waiting" THEN <<Head(s)>> \o rest ELSE rest

\* Array.prototype.sort is stable: x goes before the first element that the
\* comparator puts strictly after it.
InsertSorted(s, x) ==
  LET later == {i \in 1..Len(s) : Compare(x, s[i]) < 0}
      p == IF later = {} THEN Len(s) + 1 ELSE Min(later)
  IN SubSeq(s, 1, p - 1) \o <<x>> \o SubSeq(s, p, Len(s))

RECURSIVE SortTickets(_)
SortTickets(s) ==
  IF s = <<>> THEN <<>>
  ELSE InsertSorted(SortTickets(SubSeq(s, 1, Len(s) - 1)), s[Len(s)])

WaitingTickets == SortTickets(FilterWaiting(tickets))

\* callNextTicket without `calledAt: now`.
callNextTicketNoCalledAt(counterId, now) ==
  LET waitingTickets == WaitingTickets IN
  IF Len(waitingTickets) = 0
  THEN UNCHANGED <<state, nextUuid>> /\ Call("callNextTicket", counterId, "return")
  ELSE LET ticket == waitingTickets[1] IN
       /\ Call("callNextTicket", counterId, "set")
       /\ tickets' = [i \in 1..Len(tickets) |->
            IF tickets[i].id = ticket.id
            THEN [tickets[i] EXCEPT !.status = "calling", !.counterId = counterId]
            ELSE tickets[i]]
       /\ counters' = [i \in 1..Len(counters) |->
            IF counters[i].id = counterId
            THEN [counters[i] EXCEPT !.status = "busy",
                                     !.currentTicketId = ticket.id]
            ELSE counters[i]]
       /\ UNCHANGED <<categories, nextTicketNumber, nextUuid>>

callNextTicket(counterId, now) ==
  LET waitingTickets == WaitingTickets IN
  IF Len(waitingTickets) = 0
  THEN UNCHANGED <<state, nextUuid>> /\ Call("callNextTicket", counterId, "return")
  ELSE LET ticket == waitingTickets[1] IN
       /\ Call("callNextTicket", counterId, "set")
       /\ tickets' = [i \in 1..Len(tickets) |->
            IF tickets[i].id = ticket.id
            THEN [tickets[i] EXCEPT !.status = "calling", !.calledAt = now,
                                    !.counterId = counterId]
            ELSE tickets[i]]
       /\ counters' = [i \in 1..Len(counters) |->
            IF counters[i].id = counterId
            THEN [counters[i] EXCEPT !.status = "busy",
                                     !.currentTicketId = ticket.id]
            ELSE counters[i]]
       /\ UNCHANGED <<categories, nextTicketNumber, nextUuid>>

(***************************************************************************)
(* startServing, completeTicket                                             *)
(***************************************************************************)
\* !counter?.currentTicketId : no such counter, or no current ticket
NoCurrentTicket(counterId) ==
  LET k == FindCounter(counterId)
  IN k = 0 \/ counters[k].currentTicketId = NoTicket

\* startServing finding the ticket by the counter it was called to instead of
\* by the counter's currentTicketId.
startServingByCounterId(counterId, now) ==
  IF NoCurrentTicket(counterId)
  THEN UNCHANGED <<state, nextUuid>> /\ Call("startServing", counterId, "return")
  ELSE /\ Call("startServing", counterId, "set")
       /\ tickets' = [i \in 1..Len(tickets) |->
            IF tickets[i].counterId = counterId
            THEN [tickets[i] EXCEPT !.status = "serving", !.startedAt = now]
            ELSE tickets[i]]
       /\ UNCHANGED <<categories, counters, nextTicketNumber, nextUuid>>

startServing(counterId, now) ==
  IF NoCurrentTicket(counterId)
  THEN UNCHANGED <<state, nextUuid>> /\ Call("startServing", counterId, "return")
  ELSE LET counter == counters[FindCounter(counterId)] IN
       /\ Call("startServing", counterId, "set")
       /\ tickets' = [i \in 1..Len(tickets) |->
            IF tickets[i].id = counter.currentTicketId
            THEN [tickets[i] EXCEPT !.status = "serving", !.startedAt = now]
            ELSE tickets[i]]
       /\ UNCHANGED <<categories, counters, nextTicketNumber, nextUuid>>

\* completeTicket without `currentTicketId: undefined`.
completeTicketKeepsCurrent(counterId, status, now) ==
  IF NoCurrentTicket(counterId)
  THEN UNCHANGED <<state, nextUuid>> /\ Call("completeTicket", counterId, "return")
  ELSE LET counter == counters[FindCounter(counterId)] IN
       /\ Call("completeTicket", counterId, "set")
       /\ tickets' = [i \in 1..Len(tickets) |->
            IF tickets[i].id = counter.currentTicketId
            THEN [tickets[i] EXCEPT !.status = status, !.completedAt = now]
            ELSE tickets[i]]
       /\ counters' = [i \in 1..Len(counters) |->
            IF counters[i].id = counterId
            THEN [counters[i] EXCEPT !.status = "idle"]
            ELSE counters[i]]
       /\ UNCHANGED <<categories, nextTicketNumber, nextUuid>>

\* completeTicket without `completedAt: Date.now()`.
completeTicketNoCompletedAt(counterId, status, now) ==
  IF NoCurrentTicket(counterId)
  THEN UNCHANGED <<state, nextUuid>> /\ Call("completeTicket", counterId, "return")
  ELSE LET counter == counters[FindCounter(counterId)] IN
       /\ Call("completeTicket", counterId, "set")
       /\ tickets' = [i \in 1..Len(tickets) |->
            IF tickets[i].id = counter.currentTicketId
            THEN [tickets[i] EXCEPT !.status = status]
            ELSE tickets[i]]
       /\ counters' = [i \in 1..Len(counters) |->
            IF counters[i].id = counterId
            THEN [counters[i] EXCEPT !.status = "idle",
                                     !.currentTicketId = NoTicket]
            ELSE counters[i]]
       /\ UNCHANGED <<categories, nextTicketNumber, nextUuid>>

\* completeTicket without its early return, finding the ticket by the counter
\* it was called to instead of by the counter's currentTicketId.
completeTicketByCounterId(counterId, status, now) ==
  /\ Call("completeTicket", counterId, "set")
  /\ tickets' = [i \in 1..Len(tickets) |->
       IF tickets[i].counterId = counterId
       THEN [tickets[i] EXCEPT !.status = status, !.completedAt = now]
       ELSE tickets[i]]
  /\ counters' = [i \in 1..Len(counters) |->
       IF counters[i].id = counterId
       THEN [counters[i] EXCEPT !.status = "idle",
                                !.currentTicketId = NoTicket]
       ELSE counters[i]]
  /\ UNCHANGED <<categories, nextTicketNumber, nextUuid>>

\* completeTicket setting every counter idle instead of the one it was called
\* to.
completeTicketAllCounters(counterId, status, now) ==
  IF NoCurrentTicket(counterId)
  THEN UNCHANGED <<state, nextUuid>> /\ Call("completeTicket", counterId, "return")
  ELSE LET counter == counters[FindCounter(counterId)] IN
       /\ Call("completeTicket", counterId, "set")
       /\ tickets' = [i \in 1..Len(tickets) |->
            IF tickets[i].id = counter.currentTicketId
            THEN [tickets[i] EXCEPT !.status = status, !.completedAt = now]
            ELSE tickets[i]]
       /\ counters' = [i \in 1..Len(counters) |->
            [counters[i] EXCEPT !.status = "idle",
                                !.currentTicketId = NoTicket]]
       /\ UNCHANGED <<categories, nextTicketNumber, nextUuid>>

completeTicket(counterId, status, now) ==
  IF NoCurrentTicket(counterId)
  THEN UNCHANGED <<state, nextUuid>> /\ Call("completeTicket", counterId, "return")
  ELSE LET counter == counters[FindCounter(counterId)] IN
       /\ Call("completeTicket", counterId, "set")
       /\ tickets' = [i \in 1..Len(tickets) |->
            IF tickets[i].id = counter.currentTicketId
            THEN [tickets[i] EXCEPT !.status = status, !.completedAt = now]
            ELSE tickets[i]]
       /\ counters' = [i \in 1..Len(counters) |->
            IF counters[i].id = counterId
            THEN [counters[i] EXCEPT !.status = "idle",
                                     !.currentTicketId = NoTicket]
            ELSE counters[i]]
       /\ UNCHANGED <<categories, nextTicketNumber, nextUuid>>

(***************************************************************************)
(* clearData, removeCategory                                                *)
(***************************************************************************)
\* confirm(...) is the user's answer
clearData(confirmed) ==
  IF confirmed
  THEN /\ Call("clearData", Undefined, "set")
       /\ tickets' = <<>>
       /\ UNCHANGED <<categories, counters, nextTicketNumber, nextUuid>>
  ELSE UNCHANGED <<state, nextUuid>> /\ Call("clearData", Undefined, "return")

RECURSIVE FilterOutCategory(_, _)
\* categories.filter(c => c.id !== id)
FilterOutCategory(s, id) ==
  IF s = <<>> THEN <<>>
  ELSE LET rest == FilterOutCategory(Tail(s), id)
       IN IF Head(s).id # id THEN <<Head(s)>> \o rest ELSE rest

removeCategory(id) ==
  /\ Call("removeCategory", id, "set")
  /\ categories' = FilterOutCategory(categories, id)
  /\ UNCHANGED <<counters, tickets, nextTicketNumber, nextUuid>>

(***************************************************************************)
(* generateSyntheticData, generateData                                      *)
(***************************************************************************)
MsPerMinute == 60000

\* One ticket of the generator.  draw holds the results of the Math.random()
\* calls of one loop iteration, already floored: category (an index from 0),
\* day (days since the start of the range), hour, minute, wait (0..39),
\* service (0..16), noShow, counter (0..4).  Times are in ms since the
\* midnight of the first day of the range.
\* SynthTicket with the wait drawn from 0 minutes: without the `5 +`.
SynthTicketWaitFromZero(cats, currentId, draw) ==
  LET category == cats[draw.category + 1]
      arrivalTime == ((draw.day * 24 + draw.hour) * 60 + draw.minute) * MsPerMinute
      waitTime == draw.wait * MsPerMinute
      calledAt == arrivalTime + waitTime
      serviceTime == (3 + draw.service) * MsPerMinute
      completedAt == calledAt + serviceTime
  IN [ id |-> SynthId(currentId),
       displayId |-> <<category.prefix, PadStart(ToDigits(currentId % 1000), 3)>>,
       categoryId |-> category.id,
       status |-> IF draw.noShow THEN "no-show" ELSE "completed",
       createdAt |-> arrivalTime,
       calledAt |-> calledAt,
       startedAt |-> calledAt,
       completedAt |-> IF draw.noShow THEN Undefined ELSE completedAt,
       counterId |-> 1 + draw.counter ]

SynthTicket(cats, currentId, draw) ==
  LET category == cats[draw.category + 1]
      arrivalTime == ((draw.day * 24 + draw.hour) * 60 + draw.minute) * MsPerMinute
      waitTime == (5 + draw.wait) * MsPerMinute
      calledAt == arrivalTime + waitTime
      serviceTime == (3 + draw.service) * MsPerMinute
      completedAt == calledAt + serviceTime
  IN [ id |-> SynthId(currentId),
       displayId |-> <<category.prefix, PadStart(ToDigits(currentId % 1000), 3)>>,
       categoryId |-> category.id,
       status |-> IF draw.noShow THEN "no-show" ELSE "completed",
       createdAt |-> arrivalTime,
       calledAt |-> calledAt,
       startedAt |-> calledAt,
       completedAt |-> IF draw.noShow THEN Undefined ELSE completedAt,
       counterId |-> 1 + draw.counter ]

\* The tickets of one run, currentId counting from 1: draws[i] are the draws
\* of the i-th iteration.
generateSyntheticData(cats, draws) ==
  [i \in 1..Len(draws) |-> SynthTicket(cats, i, draws[i])]

\* The draws the handlers' specification takes: every category and both
\* outcomes, the earliest arrival and the shortest wait and service, the first
\* and the last synthetic counter.
DrawsAll(cats) ==
  [ category : 0..(Len(cats) - 1), day : {0}, hour : {8}, minute : {0},
    wait : {0}, service : {0}, noShow : BOOLEAN, counter : {0} ]

\* Math.floor(Math.random() * n) is one of 0..n-1.  The n of the wait, the
\* service time and the counter:
WaitDraws == 40
ServiceDraws == 17
CounterDraws == 5

\* Every outcome of the draws of one iteration that the times and the counter
\* of the ticket depend on: every category, wait, service time, outcome and
\* counter, on the first day at the first and the last minute of the opening
\* hours 8..17.
DrawsFull(cats) ==
  [ category : 0..(Len(cats) - 1), day : {0}, hour : {8, 17}, minute : {0, 59},
    wait : 0..(WaitDraws - 1), service : 0..(ServiceDraws - 1),
    noShow : BOOLEAN, counter : 0..(CounterDraws - 1) ]

RECURSIVE SeqsUpTo(_, _)
\* the sequences over S of length 1..n
SeqsUpTo(S, n) ==
  IF n = 0 THEN {}
  ELSE LET shorter == SeqsUpTo(S, n - 1)
       IN {<<x>> : x \in S} \cup {Append(q, x) : q \in shorter, x \in S}

\* With no category, categories[0] is undefined and reading its prefix throws
\* before setState is reached.
generateData(draws) ==
  IF Len(categories) = 0
  THEN UNCHANGED <<state, nextUuid>> /\ Call("generateData", Undefined, "throw")
  ELSE /\ Call("generateData", Undefined, "set")
       /\ tickets' = tickets \o generateSyntheticData(categories, draws)
       /\ UNCHANGED <<categories, counters, nextTicketNumber, nextUuid>>

(***************************************************************************)
(* AnalyticsView: stats                                                     *)
(*                                                                          *)
(* A JavaScript number is a fraction p/q with q > 0, NaN or Infinity, so    *)
(* that a division by zero has the result it has in the program.            *)
(***************************************************************************)
Number(p, q) == [kind |-> "finite", p |-> p, q |-> q]
NaN == [kind |-> "NaN", p |-> 0, q |-> 1]
Infinity == [kind |-> "Infinity", p |-> 0, q |-> 1]

\* x / n for a finite x >= 0 and an integer n >= 0
Divide(x, n) ==
  IF n = 0 THEN (IF x.p = 0 THEN NaN ELSE Infinity)
  ELSE Number(x.p, x.q * n)

\* x * n
Times(x, n) == IF x.kind = "finite" THEN Number(x.p * n, x.q) ELSE x

\* Math.round: the nearest integer, halves upwards
Round(x) ==
  IF x.kind = "finite" THEN Number((2 * x.p + x.q) \div (2 * x.q), 1) ELSE x

\* `length || 1` dropped: the length itself.
OrOneMissing(n) == n

\* n || 1
OrOne(n) == IF n = 0 THEN 1 ELSE n

\* x || 0 for an optional timestamp
OrZero(x) == IF x = Undefined THEN 0 ELSE x

RECURSIVE FilterStatus(_, _)
\* tickets.filter(t => t.status === status)
FilterStatus(s, status) ==
  IF s = <<>> THEN <<>>
  ELSE LET rest == FilterStatus(Tail(s), status)
       IN IF Head(s).status = status THEN <<Head(s)>> \o rest ELSE rest

RECURSIVE SumWait(_)
\* completed.reduce((acc, t) => acc + ((t.calledAt || 0) - t.createdAt), 0)
SumWait(s) ==
  IF s = <<>> THEN 0
  ELSE SumWait(SubSeq(s, 1, Len(s) - 1))
         + (OrZero(s[Len(s)].calledAt) - s[Len(s)].createdAt)

RECURSIVE SumService(_)
\* completed.reduce((acc, t) =>
\*   acc + ((t.completedAt || 0) - (t.startedAt || t.calledAt || 0)), 0)
SumService(s) ==
  IF s = <<>> THEN 0
  ELSE LET t == s[Len(s)]
           from == IF t.startedAt # Undefined THEN t.startedAt
                   ELSE OrZero(t.calledAt)
       IN SumService(SubSeq(s, 1, Len(s) - 1)) + (OrZero(t.completedAt) - from)

DaysShown == 30
Percent == 100
\* 24 * 60 * 60 * 1000
DayMs == 24 * 60 * MsPerMinute

\* The entry of last30Days for the day i days before today: the tickets with
\* start <= createdAt < start + DayMs, start the midnight of that day.  Days
\* are counted from the day of time 0, so the window is the set of times t
\* with t \div DayMs = today - i.
DayCount(today, i) ==
  Cardinality({n \in 1..Len(tickets) :
                 tickets[n].createdAt \div DayMs = today - i})

\* stats, rendered on the day `today`
stats(today) ==
  LET completed == FilterStatus(tickets, "completed")
      noShows == FilterStatus(tickets, "no-show")
      tme == Divide(Number(SumWait(completed), 1), OrOne(Len(completed)))
      tma == Divide(Number(SumService(completed), 1), OrOne(Len(completed)))
      abandonmentRate ==
        Times(Divide(Number(Len(noShows), 1), OrOne(Len(tickets))), Percent)
      \* Array.from({length: 30}, (_, i) => ...).reverse()
      last30Days == [k \in 1..DaysShown |-> DayCount(today, DaysShown - k)]
      categoryData ==
        [c \in 1..Len(categories) |->
           Cardinality({n \in 1..Len(tickets) :
                          tickets[n].categoryId = categories[c].id})]
  IN [ tme |-> Round(Divide(tme, MsPerMinute)),
       tma |-> Round(Divide(tma, MsPerMinute)),
       total |-> Len(tickets),
       abandonmentRate |-> Round(abandonmentRate),
       last30Days |-> last30Days,
       categoryData |-> categoryData ]

\* The days the view is rendered on: the day of time 0, the next day, and a
\* day from which the day of time 0 is out of the window.
Today == {0, 1, DaysShown}

(***************************************************************************)
(* Next-state relations                                                     *)
(***************************************************************************)
IssueStep(cap, T) ==
  \E c \in CategoryIds, now \in T : nextUuid <= cap /\ createTicket(c, now)

CallStep(T) == \E c \in CounterIds, now \in T : callNextTicket(c, now)

StartStep(T) == \E c \in CounterIds, now \in T : startServing(c, now)

CompleteStep(T) ==
  \E c \in CounterIds, o \in Outcomes, now \in T : completeTicket(c, o, now)

GenerateStep ==
  /\ Len(tickets) + MaxSynth <= MaxTickets
  /\ \E draws \in SeqsUpTo(DrawsAll(categories), MaxSynth) \cup {<<>>} :
       (draws = <<>>) = (Len(categories) = 0) /\ generateData(draws)

ClearStep == \E b \in BOOLEAN : clearData(b)

RemoveStep == \E c \in CategoryIds : removeCategory(c)

\* The queue engine alone: issue, call, start, complete.
NextEngine ==
  \/ IssueStep(MaxIssued, Time)
  \/ CallStep(Time)
  \/ StartStep(Time)
  \/ CompleteStep(Time)

SpecEngine == Init /\ [][NextEngine]_vars

\* The queue engine over more tickets.
NextNumbering ==
  \/ IssueStep(MaxIssuedNumbering, TimeNumbering)
  \/ CallStep(TimeNumbering)
  \/ StartStep(TimeNumbering)
  \/ CompleteStep(TimeNumbering)

SpecNumbering == Init /\ [][NextNumbering]_vars

\* Every handler.
Next ==
  \/ IssueStep(MaxIssuedAll, TimeAll)
  \/ CallStep(TimeAll)
  \/ StartStep(TimeAll)
  \/ CompleteStep(TimeAll)
  \/ GenerateStep
  \/ ClearStep

Spec == Init /\ [][Next]_vars

\* The administration view beside the kiosk: categories are removed while
\* tickets are issued, generated and cleared.
NextAdmin ==
  \/ IssueStep(MaxIssuedAll, TimeAll)
  \/ GenerateStep
  \/ ClearStep
  \/ RemoveStep

SpecAdmin == Init /\ [][NextAdmin]_vars

\* The sequence values of a saved state: none issued yet, and the last two
\* values up to MaxRestored.
RestoredNumbers == {1, MaxRestored - 1, MaxRestored}

\* useState's initializer with a saved state in localStorage: the state the
\* effect stored in an earlier session after tickets were issued, the counters
\* were freed and the ticket list was cleared (clearData keeps the sequences).
InitRestored ==
  /\ categories = DEFAULT_CATEGORIES
  /\ counters = DEFAULT_COUNTERS
  /\ tickets = <<>>
  /\ nextTicketNumber \in [{"1", "2", "3"} -> RestoredNumbers]
  /\ nextUuid = 1
  /\ lastCall = [op |-> "init", arg |-> Undefined, ret |-> "set"]

\* The kiosk of a restored session.
NextRestored ==
  \/ IssueStep(MaxIssuedAll, TimeAll)
  \/ ClearStep

SpecRestored == InitRestored /\ [][NextRestored]_vars

\* One iteration of the generator on an empty list, over all its draws.
GenerateFullStep ==
  /\ tickets = <<>>
  /\ \E draw \in DrawsFull(categories) : generateData(<<draw>>)

NextSynth == GenerateFullStep

SpecSynth == Init /\ [][NextSynth]_vars

\* The advisors' view: each advisor presses the buttons of an existing
\* counter.
RealCounterIds == {DEFAULT_COUNTERS[i].id : i \in 1..MaxCounterArg}

CallAt(c, T) == \E now \in T : callNextTicket(c, now)

StartAt(c, T) == \E now \in T : startServing(c, now)

CompleteAt(c, T) == \E o \in Outcomes, now \in T : completeTicket(c, o, now)

\* The kiosk issues a bounded number of tickets; the advisors of the existing
\* counters call, start and complete.
NextFair ==
  \/ IssueStep(MaxIssuedAll, TimeAll)
  \/ \E c \in RealCounterIds : CallAt(c, TimeAll)
  \/ \E c \in RealCounterIds : StartAt(c, TimeAll)
  \/ \E c \in RealCounterIds : CompleteAt(c, TimeAll)

\* Every advisor keeps pressing each of the three buttons.
Fairness ==
  \A c \in RealCounterIds :
    /\ WF_vars(CallAt(c, TimeAll))
    /\ WF_vars(StartAt(c, TimeAll))
    /\ WF_vars(CompleteAt(c, TimeAll))

SpecFair == Init /\ [][NextFair]_vars /\ Fairness

\* The remove button of the administration view: one for each category of
\* the list, so every category can be removed, down to the empty list.
RemoveListedStep ==
  \E i \in 1..Len(categories) : removeCategory(categories[i].id)

\* The administration view with every category removable.
NextEmptied ==
  \/ IssueStep(MaxIssuedAll, TimeAll)
  \/ GenerateStep
  \/ ClearStep
  \/ RemoveListedStep

SpecEmptied == Init /\ [][NextEmptied]_vars

(***************************************************************************)
(* Properties                                                               *)
(***************************************************************************)
Active == {"calling", "serving"}
Terminal == {"completed", "no-show"}

IsSet(x) == x # Undefined

\* Ticket i is the one a callNextTicket step picks: the step changes it and
\* leaves it in 'calling' (no other handler leaves a changed ticket there).
Selected(i) ==
  /\ i \in 1..Len(tickets)
  /\ i \in 1..Len(tickets')
  /\ tickets'[i] # tickets[i]
  /\ tickets'[i].status = "calling"

WaitingPriority == {i \in 1..Len(tickets) :
                      tickets[i].status = "waiting" /\ IsPriority(tickets[i])}

\* C1: the ticket callNext moves to 'calling' was 'waiting', and it is of a
\* category with prefix 'P' whenever some waiting ticket is, whatever the
\* createdAt of the other waiting tickets.
C1_PriorityFirst ==
  [][\A i \in 1..Len(tickets) :
       Selected(i) =>
         /\ tickets[i].status = "waiting"
         /\ (WaitingPriority # {} => i \in WaitingPriority)]_vars

\* G001 was issued before P001 (earlier in the list, smaller createdAt) and
\* still waits while P001 is being called.
C1_Witness ==
  \E i, j \in 1..Len(tickets) :
    /\ i < j
    /\ tickets[i].createdAt < tickets[j].createdAt
    /\ tickets[i].status = "waiting" /\ ~IsPriority(tickets[i])
    /\ tickets[j].status = "calling" /\ IsPriority(tickets[j])
    /\ lastCall.op = "callNextTicket"

\* Waiting ticket j is ahead of ticket i in its priority class: smaller
\* createdAt, or the same createdAt and appended earlier.
Ahead(j, i) ==
  /\ tickets[j].status = "waiting"
  /\ IsPriority(tickets[j]) = IsPriority(tickets[i])
  /\ \/ tickets[j].createdAt < tickets[i].createdAt
     \/ tickets[j].createdAt = tickets[i].createdAt /\ j < i

\* C2: callNext never moves a ticket to 'calling' while a ticket of the same
\* priority class with a smaller createdAt, or with the same createdAt and an
\* earlier place in the list, is still waiting.
C2_OldestFirstStable ==
  [][\A i \in 1..Len(tickets) :
       Selected(i) => \A j \in 1..Len(tickets) : ~Ahead(j, i)]_vars

\* Of two tickets of one class the one appended later has the smaller
\* createdAt and is called while the other still waits.
C2_Witness ==
  \E i, j \in 1..Len(tickets) :
    /\ i < j
    /\ IsPriority(tickets[i]) = IsPriority(tickets[j])
    /\ tickets[j].createdAt < tickets[i].createdAt
    /\ tickets[j].status = "calling"
    /\ tickets[i].status = "waiting"
    /\ lastCall.op = "callNextTicket"

\* Of two tickets of one class with the same createdAt the one appended first
\* is called while the other still waits.
C2_WitnessTie ==
  \E i, j \in 1..Len(tickets) :
    /\ i < j
    /\ IsPriority(tickets[i]) = IsPriority(tickets[j])
    /\ tickets[j].createdAt = tickets[i].createdAt
    /\ tickets[i].status = "calling"
    /\ tickets[j].status = "waiting"
    /\ lastCall.op = "callNextTicket"

\* the tickets a counter holds: counterId is the counter's, status is active
HeldBy(counterId) ==
  {i \in 1..Len(tickets) :
     tickets[i].counterId = counterId /\ tickets[i].status \in Active}

\* C3: each counter has at most one ticket with its counterId in 'calling' or
\* 'serving'.
C3_AtMostOneActivePerCounter ==
  \A k \in 1..Len(counters) : Cardinality(HeldBy(counters[k].id)) <= 1

\* C4: a counter's currentTicketId is set if and only if exactly one ticket has
\* its counterId and is in 'calling' or 'serving'.
C4_CurrentIffOneHeld ==
  \A k \in 1..Len(counters) :
    (counters[k].currentTicketId # NoTicket)
      <=> (Cardinality(HeldBy(counters[k].id)) = 1)

\* C5: no counter is 'idle' with currentTicketId set, and none is 'busy' with
\* currentTicketId unset.
C5_StatusMatchesCurrent ==
  \A k \in 1..Len(counters) :
    /\ ~(counters[k].status = "idle" /\ counters[k].currentTicketId # NoTicket)
    /\ ~(counters[k].status = "busy" /\ counters[k].currentTicketId = NoTicket)

\* One counter is busy with a ticket and another is idle again after its
\* ticket was completed.
C5_Witness ==
  \E k, m \in 1..Len(counters) :
    /\ counters[k].status = "busy" /\ counters[k].currentTicketId # NoTicket
    /\ counters[m].status = "idle" /\ counters[m].currentTicketId = NoTicket
    /\ \E i \in 1..Len(tickets) :
         tickets[i].counterId = counters[m].id /\ tickets[i].status \in Terminal
    /\ lastCall.op = "completeTicket" /\ lastCall.ret = "set"

\* C6: a 'waiting' ticket has calledAt, startedAt and completedAt unset; a
\* 'calling' ticket has calledAt set and startedAt and completedAt unset.
C6_TimestampsOfWaitingAndCalling ==
  \A i \in 1..Len(tickets) :
    /\ tickets[i].status = "waiting" =>
         /\ ~IsSet(tickets[i].calledAt)
         /\ ~IsSet(tickets[i].startedAt)
         /\ ~IsSet(tickets[i].completedAt)
    /\ tickets[i].status = "calling" =>
         /\ IsSet(tickets[i].calledAt)
         /\ ~IsSet(tickets[i].startedAt)
         /\ ~IsSet(tickets[i].completedAt)

\* A ticket waits and another is being called.
C6_Witness ==
  \E i, j \in 1..Len(tickets) :
    /\ tickets[i].status = "waiting"
    /\ tickets[j].status = "calling"
    /\ lastCall.op = "callNextTicket" /\ lastCall.ret = "set"

IsSynthetic(t) == t.id[1] = "synth"

\* C7 as stated: every 'no-show' ticket has completedAt set and startedAt
\* unset.
C7_NoShowCompletedNotStarted ==
  \A i \in 1..Len(tickets) :
    tickets[i].status = "no-show" =>
      IsSet(tickets[i].completedAt) /\ ~IsSet(tickets[i].startedAt)

\* C7 amended: a 'no-show' ticket of completeTicket has completedAt set, and
\* completeTicket leaves startedAt as it finds it: unset when the ticket is
\* marked from 'calling', set when it is marked from 'serving'.  A 'no-show'
\* ticket of the generator has completedAt unset and startedAt = calledAt.
C7_NoShowTimestamps ==
  /\ [](\A i \in 1..Len(tickets) :
          tickets[i].status = "no-show" =>
            IF IsSynthetic(tickets[i])
            THEN /\ ~IsSet(tickets[i].completedAt)
                 /\ IsSet(tickets[i].startedAt)
                 /\ tickets[i].startedAt = tickets[i].calledAt
            ELSE IsSet(tickets[i].completedAt))
  /\ [][\A i \in 1..Len(tickets) :
          (/\ i \in 1..Len(tickets')
           /\ tickets[i].status # "no-show"
           /\ tickets'[i].status = "no-show")
          => /\ tickets[i].status \in Active
             /\ tickets'[i].startedAt = tickets[i].startedAt
             /\ IsSet(tickets[i].startedAt) = (tickets[i].status = "serving")]_vars

\* A ticket marked 'no-show' from 'calling' beside a 'no-show' ticket of the
\* generator.
C7_Witness ==
  \E i, j \in 1..Len(tickets) :
    /\ tickets[i].status = "no-show" /\ ~IsSynthetic(tickets[i])
    /\ ~IsSet(tickets[i].startedAt) /\ IsSet(tickets[i].completedAt)
    /\ tickets[j].status = "no-show" /\ IsSynthetic(tickets[j])

\* the places in the list of the tickets of a category, in order
RECURSIVE PlacesOf(_, _)
PlacesOf(categoryId, n) ==
  IF n = 0 THEN <<>>
  ELSE IF tickets[n].categoryId = categoryId
       THEN Append(PlacesOf(categoryId, n - 1), n)
       ELSE PlacesOf(categoryId, n - 1)

\* the three characters of the number k < 1000
ThreeDigits(k) == <<k \div 100, (k \div 10) % 10, k % 10>>

\* C8: the k-th ticket issued for a category carries the number k, as three
\* digits after the prefix, whatever was issued for other categories in
\* between; the category's sequence is one past the tickets issued for it, and
\* it never decreases.
C8_PerCategoryNumbering ==
  /\ [](\A c \in 1..Len(categories) :
          LET places == PlacesOf(categories[c].id, Len(tickets)) IN
          /\ \A k \in 1..Len(places) :
               tickets[places[k]].displayId
                 = <<categories[c].prefix, ThreeDigits(k)>>
          /\ nextTicketNumber[categories[c].id] = Len(places) + 1)
  /\ [][\A c \in DOMAIN nextTicketNumber :
          /\ c \in DOMAIN nextTicketNumber'
          /\ nextTicketNumber'[c] >= nextTicketNumber[c]]_vars

\* G001, P001, G002: the second ticket of a category is issued after a ticket
\* of another category.
C8_Witness ==
  /\ Len(tickets) >= 3
  /\ tickets[1].displayId = <<"G", <<0, 0, 1>> >>
  /\ tickets[2].displayId = <<"P", <<0, 0, 1>> >>
  /\ tickets[3].displayId = <<"G", <<0, 0, 2>> >>

\* C9: completeTicket on a counter with no currentTicketId leaves tickets,
\* counters and sequence counters as they were.
C9_CompleteWithoutCurrentIsNoOp ==
  [][(lastCall'.op = "completeTicket" /\ NoCurrentTicket(lastCall'.arg))
       => UNCHANGED <<tickets, counters, nextTicketNumber>>]_vars

\* completeTicket has just returned early on a counter whose ticket an
\* earlier completeTicket completed.
C9_Witness ==
  /\ lastCall.op = "completeTicket"
  /\ lastCall.ret = "return"
  /\ FindCounter(lastCall.arg) # 0
  /\ \E i \in 1..Len(tickets) :
       /\ tickets[i].counterId = lastCall.arg
       /\ tickets[i].status \in Terminal
       /\ IsSet(tickets[i].completedAt)

\* C10: callNext with a counterId that matches no counter changes no ticket's
\* status, calledAt or counterId, nor counters or sequence counters.
C10_UnknownCounterIsNoOp ==
  [][(lastCall'.op = "callNextTicket" /\ FindCounter(lastCall'.arg) = 0)
       => /\ Len(tickets') = Len(tickets)
          /\ \A i \in 1..Len(tickets) :
               /\ tickets'[i].status = tickets[i].status
               /\ tickets'[i].calledAt = tickets[i].calledAt
               /\ tickets'[i].counterId = tickets[i].counterId
          /\ UNCHANGED <<counters, nextTicketNumber>>]_vars

\* the counter exists and its currentTicketId is the id of a ticket in 'calling'
CurrentIsCalling(counterId) ==
  LET k == FindCounter(counterId)
  IN /\ k # 0
     /\ \E i \in 1..Len(tickets) :
          /\ tickets[i].id = counters[k].currentTicketId
          /\ tickets[i].status = "calling"

\* C11: startServing changes tickets (startedAt included) and counters only
\* when the counter exists and its currentTicketId is the id of a ticket in
\* 'calling'.
C11_StartServingOnlyFromCalling ==
  [][(lastCall'.op = "startServing" /\ ~CurrentIsCalling(lastCall'.arg))
       => UNCHANGED <<tickets, counters>>]_vars

\* C12: issueTicket with a categoryId that is not in the category list returns
\* no ticket and leaves the ticket list, the counters and every sequence
\* counter as they were.
C12_UnknownCategoryIsNoOp ==
  [][(lastCall'.op = "createTicket" /\ FindCategory(lastCall'.arg) = 0)
       => /\ lastCall'.ret = "return"
          /\ UNCHANGED <<tickets, counters, nextTicketNumber>>]_vars

\* createTicket has just returned early for a category that was removed after
\* a ticket was issued for it: its sequence counter still stands past 1.
C12_Witness ==
  /\ lastCall.op = "createTicket"
  /\ lastCall.ret = "return"
  /\ FindCategory(lastCall.arg) = 0
  /\ lastCall.arg \in DOMAIN nextTicketNumber
  /\ nextTicketNumber[lastCall.arg] > 1

\* C13: once a ticket is 'completed' or 'no-show', no later issueTicket,
\* callNext, startServing or completeTicket call changes its status or any of
\* its timestamps: it keeps its place in the list and its status, createdAt,
\* calledAt, startedAt and completedAt.
C13_TerminalIsFinal ==
  [][\A i \in 1..Len(tickets) :
       tickets[i].status \in Terminal =>
         /\ i \in 1..Len(tickets')
         /\ tickets'[i].id = tickets[i].id
         /\ tickets'[i].status = tickets[i].status
         /\ tickets'[i].createdAt = tickets[i].createdAt
         /\ tickets'[i].calledAt = tickets[i].calledAt
         /\ tickets'[i].startedAt = tickets[i].startedAt
         /\ tickets'[i].completedAt = tickets[i].completedAt]_vars

\* A counter has finished one ticket and startServing or completeTicket has
\* just acted on the next ticket of the same counter.
C13_Witness ==
  /\ lastCall.op \in {"startServing", "completeTicket"}
  /\ lastCall.ret = "set"
  /\ \E i, j \in 1..Len(tickets) :
       /\ i # j
       /\ tickets[i].status \in Terminal
       /\ tickets[i].counterId = lastCall.arg
       /\ tickets[j].counterId = lastCall.arg
       /\ tickets[j].status \in {"serving"} \cup Terminal
       /\ tickets[j].completedAt # tickets[i].completedAt

\* the place in the list of the counter's current ticket when that ticket is
\* 'calling' or 'serving'; the empty set otherwise
CurrentActive(counterId) ==
  LET k == FindCounter(counterId)
  IN IF k = 0 THEN {}
     ELSE {i \in 1..Len(tickets) :
             /\ tickets[i].id = counters[k].currentTicketId
             /\ tickets[i].status \in Active}

\* C14: completeTicket on a counter whose current ticket is 'calling' or
\* 'serving' sets that ticket's status to the outcome and its completedAt to
\* the time of the call and changes no other field of it, sets that counter
\* to 'idle' with currentTicketId cleared, and leaves every other ticket,
\* every other counter and the sequence counters unchanged.
C14_CompleteActsOnCurrentOnly ==
  [][(lastCall'.op = "completeTicket" /\ CurrentActive(lastCall'.arg) # {})
       => /\ lastCall'.ret = "set"
          /\ Len(tickets') = Len(tickets)
          /\ \A i \in 1..Len(tickets) :
               IF i \in CurrentActive(lastCall'.arg)
               THEN /\ tickets'[i].status \in Outcomes
                    /\ IsSet(tickets'[i].completedAt)
                    /\ \E now \in Time :
                         tickets'[i] =
                           [tickets[i] EXCEPT !.status = tickets'[i].status,
                                              !.completedAt = now]
               ELSE tickets'[i] = tickets[i]
          /\ Len(counters') = Len(counters)
          /\ \A k \in 1..Len(counters) :
               IF counters[k].id = lastCall'.arg
               THEN counters'[k] = [id |-> counters[k].id, status |-> "idle",
                                    currentTicketId |-> NoTicket]
               ELSE counters'[k] = counters[k]
          /\ UNCHANGED nextTicketNumber]_vars

\* completeTicket has just finished a ticket at one counter while another
\* counter is still busy with its own active ticket.
C14_Witness ==
  /\ lastCall.op = "completeTicket"
  /\ lastCall.ret = "set"
  /\ \E i, j \in 1..Len(tickets), k \in 1..Len(counters) :
       /\ tickets[i].status \in Terminal
       /\ tickets[i].counterId = lastCall.arg
       /\ IsSet(tickets[i].completedAt)
       /\ counters[k].id # lastCall.arg
       /\ counters[k].status = "busy"
       /\ counters[k].currentTicketId = tickets[j].id
       /\ tickets[j].status \in Active

\* C15: no two tickets of the list have the same id, also after generateData
\* has been run more than once.
C15_TicketIdsUnique ==
  \A i, j \in 1..Len(tickets) : i # j => tickets[i].id # tickets[j].id

Zero == Number(0, 1)

C17_NumberIsSequenceMod1000 ==
  [][(lastCall'.op = "createTicket" /\ lastCall'.ret = "set")
       => LET issued == tickets'[Len(tickets')] IN
          /\ Len(issued.displayId[2]) = 3
          /\ issued.displayId[2] = ThreeDigits(NextNumber(lastCall'.arg) % 1000)]_vars

\* the tickets the sequences of the categories in S account for: the sum of
\* their distances from the initial value 1
RECURSIVE AdvancedBy(_)
AdvancedBy(S) ==
  IF S = {} THEN 0
  ELSE LET c == CHOOSE x \in S : TRUE
       IN (nextTicketNumber[c] - 1) + AdvancedBy(S \ {c})

\* C18: issueTicket appends the ticket and advances the category's sequence
\* in one step.  A call that appends a ticket appends exactly one, of the
\* category it was called for, and advances that category's sequence by
\* exactly 1 and no other; no other step changes a sequence; so in every
\* state the sequences stand at their initial value plus the tickets issued,
\* in whatever order the categories were asked for.
C18_AppendAndAdvanceTogether ==
  /\ [](AdvancedBy(DOMAIN nextTicketNumber) = nextUuid - 1)
  /\ [][IF lastCall'.op = "createTicket" /\ lastCall'.ret = "set"
        THEN /\ Len(tickets') = Len(tickets) + 1
             /\ SubSeq(tickets', 1, Len(tickets)) = tickets
             /\ tickets'[Len(tickets')].categoryId = lastCall'.arg
             /\ tickets'[Len(tickets')].id = Uuid(nextUuid)
             /\ DOMAIN nextTicketNumber' = DOMAIN nextTicketNumber
             /\ \A c \in DOMAIN nextTicketNumber :
                  nextTicketNumber'[c] =
                    nextTicketNumber[c] + (IF c = lastCall'.arg THEN 1 ELSE 0)
        ELSE UNCHANGED <<nextTicketNumber, nextUuid>>]_vars

\* A ticket of one category was issued between two tickets of another, the
\* last of the three just now: the sequences stand at 3 and 2.
C18_Witness ==
  /\ lastCall.op = "createTicket"
  /\ lastCall.ret = "set"
  /\ Len(tickets) = 3
  /\ tickets[1].categoryId = lastCall.arg
  /\ tickets[2].categoryId # lastCall.arg
  /\ tickets[3].categoryId = lastCall.arg
  /\ nextTicketNumber[lastCall.arg] = 3
  /\ nextTicketNumber[tickets[2].categoryId] = 2

\* C19: every ticket of the generator, whatever the random draws, has status
\* 'completed' or 'no-show', startedAt equal to calledAt, calledAt 5 to 45
\* minutes after createdAt and a counterId of 1..5; its completedAt is 3 to 20
\* minutes after calledAt when it is 'completed' and unset when it is
\* 'no-show'.
C19_GeneratedTicketShape ==
  \A i \in 1..Len(tickets) :
    IsSynthetic(tickets[i]) =>
      LET t == tickets[i] IN
      /\ t.status \in {"completed", "no-show"}
      /\ t.startedAt = t.calledAt
      /\ t.calledAt - t.createdAt >= 5 * MsPerMinute
      /\ t.calledAt - t.createdAt <= 45 * MsPerMinute
      /\ t.counterId \in 1..5
      /\ t.status = "completed" =>
           /\ IsSet(t.completedAt)
           /\ t.completedAt - t.calledAt >= 3 * MsPerMinute
           /\ t.completedAt - t.calledAt <= 20 * MsPerMinute
      /\ t.status = "no-show" => ~IsSet(t.completedAt)

\* The generator has produced a 'completed' ticket with the longest wait and
\* the longest service time it draws, at the last counter.
C19_Witness ==
  /\ lastCall.op = "generateData"
  /\ lastCall.ret = "set"
  /\ \E i \in 1..Len(tickets) :
       /\ IsSynthetic(tickets[i])
       /\ tickets[i].status = "completed"
       /\ tickets[i].calledAt - tickets[i].createdAt = 44 * MsPerMinute
       /\ tickets[i].completedAt - tickets[i].calledAt = 19 * MsPerMinute
       /\ tickets[i].counterId = 5

\* C20: when callNext, startServing and completeTicket keep being invoked on
\* every counter and ticket issuing has come to an end, every ticket that is
\* 'waiting', 'calling' or 'serving' eventually is 'completed' or 'no-show':
\* none stays 'calling' or 'serving' forever.
C20_EveryTicketFinishes ==
  \A i \in 1..MaxIssuedAll :
    (i <= Len(tickets) /\ tickets[i].status \notin Terminal)
      ~> (i <= Len(tickets) /\ tickets[i].status \in Terminal)

\* C20 on the behaviours in which no counter ever holds two active tickets
\* (C3): there every ticket finishes.
C20_FinishesWhileOnePerCounter ==
  ([]C3_AtMostOneActivePerCounter) => C20_EveryTicketFinishes

\* C21: generateData completes and returns without raising an error for every
\* category list, the empty list left by removeCategory included, and leaves
\* the existing tickets, the counters and the sequence counters unchanged.
C21_GenerateDataNeverThrows ==
  [][lastCall'.op = "generateData"
       => /\ lastCall'.ret = "set"
          /\ Len(tickets') >= Len(tickets)
          /\ SubSeq(tickets', 1, Len(tickets)) = tickets
          /\ UNCHANGED <<counters, nextTicketNumber>>]_vars
====
